---------------------------- MODULE Spec2Model ----------------------------
(***************************************************************************)
(* Model of the data pipeline of src/app.py (dash-sleep-health): the       *)
(* module-level statements that load the CSV source, fall back to the      *)
(* built-in fixture, compute the correlation matrix, the group means and   *)
(* the frequency tables, build the layout and serve it.                    *)
(*                                                                         *)
(* Representation.  A column identifier is a sequence of tokens: a word    *)
(* (no whitespace in it) or one single separator character, so that        *)
(* 'Sleep_Duration' is <<"Sleep", "_", "Duration">>.  A cell of a          *)
(* DataFrame is <<>> for NaN and <<v>> for the value v.  A mean is the     *)
(* fraction [num, den]; a correlation coefficient is [num, den2], standing *)
(* for num / sqrt(den2).  Sleep_Duration is held in tenths of an hour and  *)
(* Daily_Steps in hundreds of steps, so that all arithmetic is integer.    *)
(***************************************************************************)
EXTENDS Integers, Sequences, FiniteSets, TLC

\* ------------------------------------------------------------------ bounds
MaxRows == 3
MaxRequests == 2

\* ------------------------------------------------------- column identifiers
Gender == <<"Gender">>
Age == <<"Age">>
Sleep_Duration == <<"Sleep", "_", "Duration">>
Quality_of_Sleep == <<"Quality", "_", "of", "_", "Sleep">>
Physical_Activity_Level == <<"Physical", "_", "Activity", "_", "Level">>
Stress_Level == <<"Stress", "_", "Level">>
BMI_Category == <<"BMI", "_", "Category">>
Heart_Rate == <<"Heart", "_", "Rate">>
Daily_Steps == <<"Daily", "_", "Steps">>
Sleep_Disorder == <<"Sleep", "_", "Disorder">>
Count == <<"Count">>

numeric_vars ==
  << Sleep_Duration, Quality_of_Sleep, Physical_Activity_Level,
     Stress_Level, Heart_Rate, Daily_Steps >>

\* the columns of the table, in the order of the fixture's constructor
SchemaColumns ==
  << Gender, Age, Sleep_Duration, Quality_of_Sleep, Physical_Activity_Level,
     Stress_Level, BMI_Category, Heart_Rate, Daily_Steps, Sleep_Disorder >>

\* the fields the statements after the load address by name
RequiredFields ==
  { Gender, Sleep_Duration, Quality_of_Sleep, Physical_Activity_Level,
    Stress_Level, BMI_Category, Heart_Rate, Daily_Steps, Sleep_Disorder }

Range(s) == { s[i] : i \in DOMAIN s }

\* ------------------------------------------------------------------- cells
NaN == <<>>
IsNaN(c) == c = NaN
Val(c) == c[1]

\* --------------------------------------------------------------- the source
\* separators a header line of the file may use between the words of a name
HeaderSeparators == { " ", "_", "\t" }

\* the header name the file carries for a column, written with separator sep
HeaderName(col, sep) ==
  [ i \in DOMAIN col |-> IF col[i] = "_" THEN sep ELSE col[i] ]

\* texts pandas.read_csv reads as a missing value (its default na_values; the
\* text "None" is among them from pandas 2.0 on, and line 36 maps the NaN it
\* becomes back to 'None')
NaTokens == { "", "NA", "N/A", "NaN", "nan", "null", "NULL", "None" }

\* the numerals that occur in the source rows, and the number each denotes
NumeralValue ==
  [ t \in { "29", "35", "42", "51", "65", "68", "75", "82", "5", "6", "8", "9",
            "30", "45", "60", "4", "7", "72", "78", "50", "85", "100" } |->
    CASE t = "29" -> 29 [] t = "35" -> 35 [] t = "42" -> 42 [] t = "51" -> 51
      [] t = "65" -> 65 [] t = "68" -> 68 [] t = "75" -> 75 [] t = "82" -> 82
      [] t = "5" -> 5 [] t = "6" -> 6 [] t = "8" -> 8 [] t = "9" -> 9
      [] t = "30" -> 30 [] t = "45" -> 45 [] t = "60" -> 60
      [] t = "4" -> 4 [] t = "7" -> 7 [] t = "72" -> 72 [] t = "78" -> 78
      [] t = "50" -> 50 [] t = "85" -> 85 [] t = "100" -> 100 ]

\* text rows a source file may hold, one text per column of SchemaColumns
SourceRows ==
  { << "Male",   "35", "75", "8", "60", "5", "Normal",     "72", "85",  "None" >>,
    << "Female", "42", "68", "6", "45", "7", "Overweight", "72", "60",  "Insomnia" >>,
    << "Male",   "29", "82", "9", "",   "4", "Normal",     "68", "100", "" >>,
    << "Female", "51", "65", "5", "30", "8", "Obese",      "78", "50",  "Sleep Apnea" >>,
    << "",       "42", "75", "",  "45", "6", "",           "72", "60",  "NA" >> }

\* a tuple without its k-th element
DropAt(s, k) == [ i \in 1..(Len(s) - 1) |-> IF i < k THEN s[i] ELSE s[i + 1] ]

RECURSIVE SeqsUpTo(_, _)
\* the sequences over S of length 1..n
SeqsUpTo(S, n) ==
  IF n = 0 THEN {}
  ELSE LET shorter == SeqsUpTo(S, n - 1)
       IN  { <<x>> : x \in S } \cup shorter
             \cup { Append(q, x) : q \in shorter, x \in S }

\* the files the program may find at data_path
SourceFiles ==
  { [ state |-> st, header |-> <<>>, rows |-> <<>> ] : st \in { "missing", "unparsable" } }
  \cup
  { [ state |-> "ok",
      header |-> [ i \in 1..Len(SchemaColumns) |-> HeaderName(SchemaColumns[i], sep) ],
      rows |-> rs ] :
      sep \in HeaderSeparators, rs \in SeqsUpTo(SourceRows, MaxRows) }
  \cup
  { [ state |-> "ok",
      header |-> DropAt([ i \in 1..Len(SchemaColumns) |-> HeaderName(SchemaColumns[i], sep) ], k),
      rows |-> [ r \in DOMAIN rs |-> DropAt(rs[r], k) ] ] :
      sep \in HeaderSeparators, rs \in SeqsUpTo(SourceRows, MaxRows),
      k \in 1..Len(SchemaColumns) }

\* --------------------------------------------------------------- DataFrames
NoFrame == [ columns |-> <<>>, rows |-> <<>> ]

HasColumn(df, name) == \E i \in DOMAIN df.columns : df.columns[i] = name

ColIndex(df, name) ==
  CHOOSE i \in DOMAIN df.columns :
    /\ df.columns[i] = name
    /\ \A j \in DOMAIN df.columns : df.columns[j] = name => i <= j

\* df[name] : the cells of one column, in row order
Column(df, name) ==
  LET k == ColIndex(df, name)
  IN  [ r \in DOMAIN df.rows |-> df.rows[r][k] ]

\* ------------------------------------------------------------ the load step
\* pandas' parse of one text of the file
ParseCell(t) ==
  IF t \in NaTokens THEN NaN
  ELSE IF t \in DOMAIN NumeralValue THEN << NumeralValue[t] >>
  ELSE << t >>

\* pd.read_csv(data_path) on a readable file
read_csv(f) ==
  [ columns |-> f.header,
    rows |-> [ r \in DOMAIN f.rows |->
                 [ c \in DOMAIN f.rows[r] |-> ParseCell(f.rows[r][c]) ] ] ]

\* col.replace(' ', '_')
ReplaceSpaces(col) ==
  [ i \in DOMAIN col |-> IF col[i] = " " THEN "_" ELSE col[i] ]

\* [col.replace(' ', '_') for col in data_base.columns]
NormalizeColumns(cols) == [ i \in DOMAIN cols |-> ReplaceSpaces(cols[i]) ]

\* a fillna whose result is not kept
fillnaDiscarded(cells, v) == cells

\* Series.fillna(v)
fillna(cells, v) == [ r \in DOMAIN cells |-> IF IsNaN(cells[r]) THEN << v >> ELSE cells[r] ]

\* df[name] = cells, for a column the frame already has
SetColumn(df, name, cells) ==
  LET k == ColIndex(df, name)
  IN  [ df EXCEPT !.rows =
          [ r \in DOMAIN df.rows |-> [ df.rows[r] EXCEPT ![k] = cells[r] ] ] ]

\* a fixture whose last column is spelled as in the file's header
FixtureSpacedName ==
  [ columns |-> [ i \in DOMAIN SchemaColumns |-> HeaderName(SchemaColumns[i], " ") ],
    rows |-> << << <<"Male">>, <<35>>, <<75>>, <<8>>, <<60>>, <<5>>, <<"Normal">>,
                   <<72>>, <<85>>, <<"None">> >> >> ]

\* the built-in table of the except branch
Fixture ==
  [ columns |-> SchemaColumns,
    rows |->
      << << <<"Male">>,   <<35>>, <<75>>, <<8>>, <<60>>, <<5>>, <<"Normal">>,     <<72>>, <<85>>,  <<"None">> >>,
         << <<"Female">>, <<42>>, <<68>>, <<6>>, <<45>>, <<7>>, <<"Overweight">>, <<78>>, <<60>>,  <<"Insomnia">> >>,
         << <<"Male">>,   <<29>>, <<82>>, <<9>>, <<75>>, <<4>>, <<"Normal">>,     <<68>>, <<100>>, <<"None">> >>,
         << <<"Female">>, <<51>>, <<65>>, <<5>>, <<30>>, <<8>>, <<"Obese">>,      <<82>>, <<50>>,  <<"Sleep Apnea">> >> >> ]

DegradedReport == "Error al cargar datos"


\* ----------------------------------------------------------- the statistics
\* Python's order of the texts the categorical columns hold
StringOrder ==
  << "Female", "Insomnia", "Male", "None", "Normal", "Obese", "Overweight",
     "Sleep Apnea" >>

RECURSIVE SumOf(_, _)
\* the sum of f[i] over the finite set S of indices
SumOf(f, S) ==
  IF S = {} THEN 0
  ELSE LET i == CHOOSE j \in S : TRUE IN f[i] + SumOf(f, S \ {i})

\* the values of a column that are not NaN
ValuesOf(cells) == { Val(cells[r]) : r \in { q \in DOMAIN cells : ~IsNaN(cells[q]) } }

\* the distinct values of a column in the order of their first occurrence
FirstOccurrences(cells) ==
  LET firstRows == { r \in DOMAIN cells :
                       /\ ~IsNaN(cells[r])
                       /\ \A q \in DOMAIN cells : q < r => cells[q] # cells[r] }
      rank(r) == Cardinality({ q \in firstRows : q <= r })
  IN  [ p \in 1..Cardinality(firstRows) |->
          Val(cells[CHOOSE r \in firstRows : rank(r) = p]) ]

\* a groupby that keeps a row for every category, occurring or not
GroupKeysAllCategories(cells) == StringOrder

\* a groupby with sort=False: the keys in order of first occurrence
GroupKeysUnsorted(cells) == FirstOccurrences(cells)

\* the keys of a groupby: the values present, NaN dropped, sorted ascending
GroupKeys(cells) == SelectSeq(StringOrder, LAMBDA s : s \in ValuesOf(cells))

\* a sum where the mean is meant
MeanOverSum(cells, R) ==
  LET valid == { r \in R : ~IsNaN(cells[r]) }
  IN  IF valid = {} THEN NaN
      ELSE << [ num |-> SumOf([ r \in valid |-> Val(cells[r]) ], valid), den |-> 1 ] >>

\* Series.mean() over the rows of R: NaN skipped, NaN when nothing is left
MeanOver(cells, R) ==
  LET valid == { r \in R : ~IsNaN(cells[r]) }
  IN  IF valid = {} THEN NaN
      ELSE << [ num |-> SumOf([ r \in valid |-> Val(cells[r]) ], valid),
                den |-> Cardinality(valid) ] >>

\* the rows of a frame that have a value in every numeric field
CompleteRows(df) ==
  SelectSeq(df.rows,
            LAMBDA row : \A v \in DOMAIN numeric_vars :
                           ~IsNaN(row[ColIndex(df, numeric_vars[v])]))

\* group means after a dropna() over the numeric fields
GroupMeansCompleteRows(df, key) ==
  LET kept == [ df EXCEPT !.rows = CompleteRows(df) ]
      keys == GroupKeys(Column(kept, key))
      members(k) == { r \in DOMAIN kept.rows : Column(kept, key)[r] = << k >> }
  IN  [ columns |-> << key >> \o numeric_vars,
        rows |-> [ g \in DOMAIN keys |->
                     << << keys[g] >> >> \o
                     [ v \in DOMAIN numeric_vars |->
                         MeanOver(Column(kept, numeric_vars[v]), members(keys[g])) ] ] ]

\* df.groupby(key)[numeric_vars].mean().reset_index()
GroupMeans(df, key) ==
  LET keys == GroupKeys(Column(df, key))
      members(k) == { r \in DOMAIN df.rows : Column(df, key)[r] = << k >> }
  IN  [ columns |-> << key >> \o numeric_vars,
        rows |-> [ g \in DOMAIN keys |->
                     << << keys[g] >> >> \o
                     [ v \in DOMAIN numeric_vars |->
                         MeanOver(Column(df, numeric_vars[v]), members(keys[g])) ] ] ]

\* the number of rows holding the value v
Occurrences(cells, v) == Cardinality({ r \in DOMAIN cells : cells[r] = << v >> })

\* df[name].value_counts().reset_index() with columns renamed [name, 'Count']:
\* NaN is not counted; most frequent first, ties in order of first occurrence
ValueCounts(df, name) ==
  LET cells == Column(df, name)
      keys == FirstOccurrences(cells)
      before(i, j) ==
        \/ Occurrences(cells, keys[i]) > Occurrences(cells, keys[j])
        \/ Occurrences(cells, keys[i]) = Occurrences(cells, keys[j]) /\ i < j
      pos(i) == 1 + Cardinality({ j \in DOMAIN keys : before(j, i) })
  IN  [ columns |-> << name, Count >>,
        rows |-> [ p \in DOMAIN keys |->
                     LET i == CHOOSE j \in DOMAIN keys : pos(j) = p
                     IN  << << keys[i] >>, << Occurrences(cells, keys[i]) >> >> ] ]

\* Pearson's coefficient of two columns over the rows where both are valid
\* (min_periods = 1).  With n rows, cov = n*Sxy - Sx*Sy, vx = n*Sxx - Sx^2 and
\* vy likewise, the coefficient is cov / sqrt(vx * vy); it is NaN when no row
\* is eligible or when the divisor is zero.
Pearson(xs, ys) ==
  LET valid == { r \in DOMAIN xs : ~IsNaN(xs[r]) /\ ~IsNaN(ys[r]) }
      n == Cardinality(valid)
      Sx == SumOf([ r \in valid |-> Val(xs[r]) ], valid)
      Sy == SumOf([ r \in valid |-> Val(ys[r]) ], valid)
      Sxx == SumOf([ r \in valid |-> Val(xs[r]) * Val(xs[r]) ], valid)
      Syy == SumOf([ r \in valid |-> Val(ys[r]) * Val(ys[r]) ], valid)
      Sxy == SumOf([ r \in valid |-> Val(xs[r]) * Val(ys[r]) ], valid)
      vx == n * Sxx - Sx * Sx
      vy == n * Syy - Sy * Sy
  IN  IF n < 1 \/ vx * vy = 0 THEN NaN
      ELSE << [ num |-> n * Sxy - Sx * Sy, den2 |-> vx * vy ] >>

\* a correlation over the rows that are complete in all six fields
CorrCompleteRows(df) ==
  LET kept == [ df EXCEPT !.rows = CompleteRows(df) ]
  IN  [ p \in Range(numeric_vars) \X Range(numeric_vars) |->
          Pearson(Column(kept, p[1]), Column(kept, p[2])) ]

\* df[numeric_vars].corr()
Corr(df) ==
  [ p \in Range(numeric_vars) \X Range(numeric_vars) |->
      Pearson(Column(df, p[1]), Column(df, p[2])) ]

\* ------------------------------------------------------------- the layout
\* a lookup that answers NaN for a key the table does not have
LocValuesDefault(tbl, key, k, field) ==
  LET hits == SelectSeq(tbl.rows, LAMBDA row : row[ColIndex(tbl, key)] = << k >>)
  IN  IF Len(hits) = 0 THEN << NaN >>
      ELSE [ i \in DOMAIN hits |-> hits[i][ColIndex(tbl, field)] ]

\* stats.loc[stats[key] == k, field].values[0]: the cells of the matching rows
LocValues(tbl, key, k, field) ==
  LET hits == SelectSeq(tbl.rows, LAMBDA row : row[ColIndex(tbl, key)] = << k >>)
  IN  [ i \in DOMAIN hits |-> hits[i][ColIndex(tbl, field)] ]

\* the (gender, field) figures the text of hallazgos_tab quotes
GenderLookups ==
  { << "Female", Sleep_Duration >>, << "Male", Sleep_Duration >>,
    << "Female", Quality_of_Sleep >>, << "Male", Quality_of_Sleep >>,
    << "Male", Stress_Level >>, << "Female", Stress_Level >> }

\* the (field, field) coefficients the text of the tabs quotes
CorrLookups ==
  { << Sleep_Duration, Quality_of_Sleep >>, << Stress_Level, Quality_of_Sleep >>,
    << Physical_Activity_Level, Daily_Steps >>, << Heart_Rate, Stress_Level >>,
    << Physical_Activity_Level, Quality_of_Sleep >> }

\* the columns of data_base the cards and the figures address by name
LayoutFields ==
  { Gender, BMI_Category, Sleep_Disorder, Sleep_Duration, Quality_of_Sleep,
    Physical_Activity_Level, Stress_Level }

\* ------------------------------------------------------------------- state
VARIABLES
  file,                  \* what is at data_path (never written by the program)
  pc,                    \* the statement of the module to execute next
  exc,                   \* the exception in flight and the statement that raised it
  data_base,
  stdout,                \* the lines printed so far
  fallbackTaken,         \* the except branch has run
  corr_matrix,
  stats_gender,
  stats_bmi,
  gender_counts,
  bmi_counts,
  sleep_disorder_counts,
  layout,                \* app.layout: the figures the text quotes
  served                 \* page requests answered so far

vars ==
  << file, pc, exc, data_base, stdout, fallbackTaken, corr_matrix, stats_gender,
     stats_bmi, gender_counts, bmi_counts, sleep_disorder_counts, layout, served >>

artifacts ==
  << corr_matrix, stats_gender, stats_bmi, gender_counts, bmi_counts,
     sleep_disorder_counts >>

NoException == [ type |-> "none", at |-> "none" ]

\* the exception e, raised by the statement at pc
Raised(e) == [ type |-> e, at |-> pc ]

NoLayout == [ built |-> FALSE, gender |-> <<>>, corr |-> <<>> ]

Init ==
  /\ file \in SourceFiles
  /\ pc = "read_csv"
  /\ exc = NoException
  /\ data_base = NoFrame
  /\ stdout = <<>>
  /\ fallbackTaken = FALSE
  /\ corr_matrix = <<>>
  /\ stats_gender = NoFrame
  /\ stats_bmi = NoFrame
  /\ gender_counts = NoFrame
  /\ bmi_counts = NoFrame
  /\ sleep_disorder_counts = NoFrame
  /\ layout = NoLayout
  /\ served = 0

\* an exception raised outside the try statement ends the process
Crash(e) ==
  /\ pc' = "crashed"
  /\ exc' = Raised(e)

\* line 30: data_base = pd.read_csv(data_path)
ReadCsv ==
  /\ pc = "read_csv"
  /\ IF file.state = "ok"
       THEN /\ data_base' = read_csv(file)
            /\ pc' = "rename"
            /\ exc' = exc
       ELSE /\ data_base' = data_base
            /\ pc' = "except"
            /\ exc' = Raised(IF file.state = "missing" THEN "FileNotFoundError"
                                                       ELSE "ParserError")
  /\ UNCHANGED << file, stdout, fallbackTaken, artifacts, layout, served >>

\* line 33: data_base.columns = [col.replace(' ', '_') for col in ...]
RenameColumns ==
  /\ pc = "rename"
  /\ data_base' = [ data_base EXCEPT !.columns = NormalizeColumns(@) ]
  /\ pc' = "fillna"
  /\ UNCHANGED << file, exc, stdout, fallbackTaken, artifacts, layout, served >>

\* line 36: data_base['Sleep_Disorder'] = data_base['Sleep_Disorder'].fillna('None')
FillSleepDisorder ==
  /\ pc = "fillna"
  /\ IF HasColumn(data_base, Sleep_Disorder)
       THEN /\ data_base' = SetColumn(data_base, Sleep_Disorder,
                                      fillna(Column(data_base, Sleep_Disorder), "None"))
            /\ pc' = "corr"
            /\ exc' = exc
       ELSE /\ data_base' = data_base
            /\ pc' = "except"
            /\ exc' = Raised("KeyError")
  /\ UNCHANGED << file, stdout, fallbackTaken, artifacts, layout, served >>

\* an except branch that leaves the correlation to the try block
FallbackSkippingCorr ==
  /\ pc = "except"
  /\ stdout' = Append(stdout, << DegradedReport, exc.type >>)
  /\ data_base' = Fixture
  /\ fallbackTaken' = TRUE
  /\ exc' = NoException
  /\ pc' = "stats_gender"
  /\ UNCHANGED << file, artifacts, layout, served >>

\* an except branch that keeps a table the try block has already bound
FallbackPartial ==
  /\ pc = "except"
  /\ stdout' = Append(stdout, << DegradedReport, exc.type >>)
  /\ data_base' = IF data_base = NoFrame THEN Fixture ELSE data_base
  /\ fallbackTaken' = TRUE
  /\ exc' = NoException
  /\ pc' = "corr"
  /\ UNCHANGED << file, artifacts, layout, served >>

\* an except branch that substitutes the fixture without printing
FallbackSilent ==
  /\ pc = "except"
  /\ data_base' = Fixture
  /\ fallbackTaken' = TRUE
  /\ exc' = NoException
  /\ pc' = "corr"
  /\ UNCHANGED << file, stdout, artifacts, layout, served >>

\* lines 37-51: except Exception as e: print(...); data_base = pd.DataFrame({...})
Fallback ==
  /\ pc = "except"
  /\ stdout' = Append(stdout, << DegradedReport, exc.type >>)
  /\ data_base' = Fixture
  /\ fallbackTaken' = TRUE
  /\ exc' = NoException
  /\ pc' = "corr"
  /\ UNCHANGED << file, artifacts, layout, served >>

\* line 61: corr_matrix = data_base[numeric_vars].corr()
Correlate ==
  /\ pc = "corr"
  /\ IF \A v \in Range(numeric_vars) : HasColumn(data_base, v)
       THEN /\ corr_matrix' = Corr(data_base)
            /\ pc' = "stats_gender"
            /\ exc' = exc
       ELSE /\ corr_matrix' = corr_matrix
            /\ Crash("KeyError")
  /\ UNCHANGED << file, data_base, stdout, fallbackTaken, stats_gender, stats_bmi,
                  gender_counts, bmi_counts, sleep_disorder_counts, layout, served >>

\* line 68: stats_gender = data_base.groupby('Gender')[numeric_vars].mean().reset_index()
GroupByGender ==
  /\ pc = "stats_gender"
  /\ IF HasColumn(data_base, Gender)
       THEN /\ stats_gender' = GroupMeans(data_base, Gender)
            /\ pc' = "stats_bmi"
            /\ exc' = exc
       ELSE /\ stats_gender' = stats_gender
            /\ Crash("KeyError")
  /\ UNCHANGED << file, data_base, stdout, fallbackTaken, corr_matrix, stats_bmi,
                  gender_counts, bmi_counts, sleep_disorder_counts, layout, served >>

\* line 69: stats_bmi = data_base.groupby('BMI_Category')[numeric_vars].mean().reset_index()
GroupByBmi ==
  /\ pc = "stats_bmi"
  /\ IF HasColumn(data_base, BMI_Category)
       THEN /\ stats_bmi' = GroupMeans(data_base, BMI_Category)
            /\ pc' = "gender_counts"
            /\ exc' = exc
       ELSE /\ stats_bmi' = stats_bmi
            /\ Crash("KeyError")
  /\ UNCHANGED << file, data_base, stdout, fallbackTaken, corr_matrix, stats_gender,
                  gender_counts, bmi_counts, sleep_disorder_counts, layout, served >>

\* lines 72-73: gender_counts = data_base['Gender'].value_counts().reset_index()
CountGender ==
  /\ pc = "gender_counts"
  /\ gender_counts' = ValueCounts(data_base, Gender)
  /\ pc' = "bmi_counts"
  /\ UNCHANGED << file, exc, data_base, stdout, fallbackTaken, corr_matrix,
                  stats_gender, stats_bmi, bmi_counts, sleep_disorder_counts,
                  layout, served >>

\* lines 75-76: bmi_counts = data_base['BMI_Category'].value_counts().reset_index()
CountBmi ==
  /\ pc = "bmi_counts"
  /\ bmi_counts' = ValueCounts(data_base, BMI_Category)
  /\ pc' = "sleep_disorder_counts"
  /\ UNCHANGED << file, exc, data_base, stdout, fallbackTaken, corr_matrix,
                  stats_gender, stats_bmi, gender_counts, sleep_disorder_counts,
                  layout, served >>

\* lines 78-79: sleep_disorder_counts = data_base['Sleep_Disorder'].value_counts().reset_index()
CountSleepDisorder ==
  /\ pc = "sleep_disorder_counts"
  /\ sleep_disorder_counts' = ValueCounts(data_base, Sleep_Disorder)
  /\ pc' = "layout"
  /\ UNCHANGED << file, exc, data_base, stdout, fallbackTaken, corr_matrix,
                  stats_gender, stats_bmi, gender_counts, bmi_counts, layout, served >>

\* lines 135-723: the cards, the tabs and app.layout are built; the text of the
\* tabs reads stats_gender with .values[0] and corr_matrix with .loc
BuildLayout ==
  /\ pc = "layout"
  /\ IF \E f \in LayoutFields : ~HasColumn(data_base, f)
       THEN /\ layout' = layout
            /\ Crash("ValueError")
       ELSE
     IF \E q \in GenderLookups :
          Len(LocValues(stats_gender, Gender, q[1], q[2])) = 0
       THEN /\ layout' = layout
            /\ Crash("IndexError")
       ELSE /\ layout' =
                 [ built |-> TRUE,
                   gender |-> [ q \in GenderLookups |->
                                  LocValues(stats_gender, Gender, q[1], q[2])[1] ],
                   corr |-> [ q \in CorrLookups |-> corr_matrix[q] ] ]
            /\ pc' = "run_server"
            /\ exc' = exc
  /\ UNCHANGED << file, data_base, stdout, fallbackTaken, artifacts, served >>

\* line 727: app.run_server(...)
RunServer ==
  /\ pc = "run_server"
  /\ pc' = "serving"
  /\ UNCHANGED << file, exc, data_base, stdout, fallbackTaken, artifacts, layout, served >>

\* a request handler that runs the module's pipeline again
ServeRequestReloading ==
  /\ pc = "serving"
  /\ served < MaxRequests
  /\ served' = served + 1
  /\ pc' = "read_csv"
  /\ UNCHANGED << file, exc, data_base, stdout, fallbackTaken, artifacts, layout >>

\* a page request: Dash serialises app.layout; no callback is registered
ServeRequest ==
  /\ pc = "serving"
  /\ served < MaxRequests
  /\ served' = served + 1
  /\ UNCHANGED << file, pc, exc, data_base, stdout, fallbackTaken, artifacts, layout >>

Next ==
  \/ ReadCsv
  \/ RenameColumns
  \/ FillSleepDisorder
  \/ Fallback
  \/ Correlate
  \/ GroupByGender
  \/ GroupByBmi
  \/ CountGender
  \/ CountBmi
  \/ CountSleepDisorder
  \/ BuildLayout
  \/ RunServer
  \/ ServeRequest

Spec == Init /\ [][Next]_vars

\* ------------------------------------------------------------ properties
LoadStatements == { "read_csv", "rename", "fillna", "except" }

\* the try statement of lines 29-51 has been left
LoadDone == pc \notin LoadStatements /\ ~(pc = "crashed" /\ exc.at \in LoadStatements)

\* the statements that have completed once pc has the given value
Position(p) ==
  CASE p = "read_csv" -> 0 [] p = "rename" -> 1 [] p = "fillna" -> 2
    [] p = "except" -> 2 [] p = "corr" -> 3 [] p = "stats_gender" -> 4
    [] p = "stats_bmi" -> 5 [] p = "gender_counts" -> 6 [] p = "bmi_counts" -> 7
    [] p = "sleep_disorder_counts" -> 8 [] p = "layout" -> 9
    [] p = "run_server" -> 10 [] p = "serving" -> 11

\* the statement at p has completed
Completed(p) ==
  Position(IF pc = "crashed" THEN exc.at ELSE pc) > Position(p)

\* C1: whatever the outcome of reading the source, no exception leaves the
\* load step; and when the source cannot be read or parsed, data_base is the
\* fixture, which has rows and all nine required fields, and no later
\* statement fails on it.
C1_UnreadableSourceYieldsFixture ==
  /\ pc = "crashed" => exc.at \notin LoadStatements
  /\ (file.state # "ok" /\ pc \notin LoadStatements) =>
       /\ data_base = Fixture
       /\ Len(data_base.rows) > 0
       /\ RequiredFields \subseteq Range(data_base.columns)
       /\ pc # "crashed"

C1_Witness ==
  /\ file.state = "missing"
  /\ pc = "serving"
  /\ data_base = Fixture
  /\ layout.built

\* C2: after the load step no required field is missing from data_base: a
\* source without one of the nine fields is replaced by the fixture.
C2_MissingColumnFailsLoad ==
  LoadDone => RequiredFields \subseteq Range(data_base.columns)

\* C3: the fixture is substituted exactly when the degraded-load report has
\* been printed.
C3_FallbackIsReported ==
  LET reported == \E i \in DOMAIN stdout : stdout[i][1] = DegradedReport
  IN  /\ fallbackTaken <=> reported
      /\ reported => data_base = Fixture
      /\ (pc \notin LoadStatements /\ data_base = Fixture) => reported

C3_Witness ==
  /\ fallbackTaken
  /\ data_base = Fixture
  /\ Len(stdout) = 1
  /\ stdout[1] = << DegradedReport, "KeyError" >>

\* the texts of the file's column that normalizes to name
SourceTexts(name) ==
  LET k == CHOOSE i \in DOMAIN file.header : ReplaceSpaces(file.header[i]) = name
  IN  [ r \in DOMAIN file.rows |-> file.rows[r][k] ]

\* the count a frequency table gives for the value v, 0 when v is no key of it
CountOf(tbl, v) ==
  LET hits == SelectSeq(tbl.rows, LAMBDA row : row[1] = << v >>)
  IN  IF Len(hits) = 0 THEN 0 ELSE Val(hits[1][2])

\* C4: after load no row has a NaN Sleep_Disorder; and the rows whose
\* Sleep_Disorder was absent in the source are counted under "None", every
\* other key counting exactly the rows that carry its text.
C4_AbsentDisorderCountedAsNone ==
  /\ LoadDone =>
       \A r \in DOMAIN data_base.rows :
         ~IsNaN(Column(data_base, Sleep_Disorder)[r])
  /\ (Completed("sleep_disorder_counts") /\ ~fallbackTaken) =>
       LET texts == SourceTexts(Sleep_Disorder)
           absent == { r \in DOMAIN texts : texts[r] \in NaTokens }
       IN  /\ CountOf(sleep_disorder_counts, "None") = Cardinality(absent)
           /\ \A i \in DOMAIN sleep_disorder_counts.rows :
                LET k == Val(sleep_disorder_counts.rows[i][1])
                IN  k # "None" =>
                      /\ k \notin NaTokens
                      /\ Val(sleep_disorder_counts.rows[i][2]) =
                           Cardinality({ r \in DOMAIN texts : texts[r] = k })

C4_Witness ==
  /\ pc = "layout"
  /\ ~fallbackTaken
  /\ \E r \in DOMAIN file.rows : SourceTexts(Sleep_Disorder)[r] = ""
  /\ \E r \in DOMAIN file.rows : SourceTexts(Sleep_Disorder)[r] = "Insomnia"
  /\ CountOf(sleep_disorder_counts, "None") >= 1

\* the sum of the Count column of a frequency table
TotalCount(tbl) ==
  SumOf([ i \in DOMAIN tbl.rows |-> Val(tbl.rows[i][2]) ], DOMAIN tbl.rows)

\* C5: the counts of each of the three frequency tables sum to the number of
\* rows of the dataset.
C5_CountsSumToRows ==
  /\ Completed("gender_counts") => TotalCount(gender_counts) = Len(data_base.rows)
  /\ Completed("bmi_counts") => TotalCount(bmi_counts) = Len(data_base.rows)
  /\ Completed("sleep_disorder_counts") =>
       TotalCount(sleep_disorder_counts) = Len(data_base.rows)

\* the keys of a group-means table, in row order
KeysOf(tbl) == [ i \in DOMAIN tbl.rows |-> Val(tbl.rows[i][1]) ]

\* tbl has exactly one row for each value of the column key of data_base
OneRowPerCategory(tbl, key) ==
  /\ Range(KeysOf(tbl)) = ValuesOf(Column(data_base, key))
  /\ Len(tbl.rows) = Cardinality(ValuesOf(Column(data_base, key)))
  /\ \A i \in DOMAIN tbl.rows :
       \E r \in DOMAIN data_base.rows : Column(data_base, key)[r] = tbl.rows[i][1]

\* C6: each group-means table has exactly one row for each value of the group
\* field that occurs in the dataset, and no row for a value without rows.
C6_OneRowPerOccurringCategory ==
  /\ Completed("stats_gender") => OneRowPerCategory(stats_gender, Gender)
  /\ Completed("stats_bmi") => OneRowPerCategory(stats_bmi, BMI_Category)

C6_Witness ==
  /\ pc = "gender_counts"
  /\ ~fallbackTaken
  /\ Len(stats_gender.rows) = 2
  /\ Len(stats_bmi.rows) = 2
  /\ \E r \in DOMAIN data_base.rows : IsNaN(Column(data_base, Gender)[r])

\* C7 as stated: the rows of each group-means table are in the order in which
\* the group values first occur in the dataset.
C7_RowsInFirstOccurrenceOrder ==
  /\ Completed("stats_gender") =>
       KeysOf(stats_gender) = FirstOccurrences(Column(data_base, Gender))
  /\ Completed("stats_bmi") =>
       KeysOf(stats_bmi) = FirstOccurrences(Column(data_base, BMI_Category))

\* the place of a text in Python's string order
StringRank(t) == CHOOSE i \in DOMAIN StringOrder : StringOrder[i] = t

Ascending(keys) ==
  \A i, j \in DOMAIN keys : i < j => StringRank(keys[i]) < StringRank(keys[j])

\* C7 amended: the rows of each group-means table are in ascending order of
\* the group value, also when the values first occur in another order.
C7_RowsInAscendingKeyOrder ==
  /\ Completed("stats_gender") => Ascending(KeysOf(stats_gender))
  /\ Completed("stats_bmi") => Ascending(KeysOf(stats_bmi))

C7_Witness ==
  /\ pc = "gender_counts"
  /\ FirstOccurrences(Column(data_base, Gender)) = << "Male", "Female" >>
  /\ KeysOf(stats_gender) = << "Female", "Male" >>
  /\ FirstOccurrences(Column(data_base, BMI_Category)) = << "Normal", "Overweight", "Obese" >>
  /\ KeysOf(stats_bmi) = << "Normal", "Obese", "Overweight" >>

\* the coefficient is exactly 1.0
IsOne(c) == ~IsNaN(c) /\ Val(c).num > 0 /\ Val(c).num * Val(c).num = Val(c).den2

\* C8: the correlation matrix is symmetric and its diagonal is exactly 1.0.
C8_SymmetricWithUnitDiagonal ==
  Completed("corr") =>
    /\ \A a, b \in Range(numeric_vars) : corr_matrix[<< a, b >>] = corr_matrix[<< b, a >>]
    /\ \A a \in Range(numeric_vars) : IsOne(corr_matrix[<< a, a >>])

\* the rows of data_base in which both fields have a value
Eligible(a, b) ==
  LET xs == Column(data_base, a)
      ys == Column(data_base, b)
  IN  { r \in DOMAIN data_base.rows : ~IsNaN(xs[r]) /\ ~IsNaN(ys[r]) }

\* the field takes a single value over the rows of R
ZeroVariance(a, R) == R # {} /\ Cardinality({ Val(Column(data_base, a)[r]) : r \in R }) = 1

\* C9: a pair with a field of zero variance over its eligible rows has the
\* coefficient 0.0, not NaN.
C9_ZeroVarianceReportedAsZero ==
  Completed("corr") =>
    \A a, b \in Range(numeric_vars) :
      (ZeroVariance(a, Eligible(a, b)) \/ ZeroVariance(b, Eligible(a, b))) =>
        /\ ~IsNaN(corr_matrix[<< a, b >>])
        /\ Val(corr_matrix[<< a, b >>]).num = 0

\* C10: every entry of the correlation matrix lies in [-1.0, 1.0].
C10_EntriesWithinUnitInterval ==
  Completed("corr") =>
    \A a, b \in Range(numeric_vars) :
      LET c == corr_matrix[<< a, b >>]
      IN  ~IsNaN(c) /\ Val(c).num * Val(c).num <= Val(c).den2


\* the rows of data_base whose cell in column key is the value k
RowsWith(key, k) ==
  LET cells == Column(data_base, key)
  IN  { r \in DOMAIN data_base.rows : cells[r] = << k >> }

\* the mean of field over the rows of R that have a value for it
ExpectedMean(field, R) ==
  LET cells == Column(data_base, field)
      valid == { r \in R : ~IsNaN(cells[r]) }
      total == SumOf([ r \in valid |-> Val(cells[r]) ], valid)
  IN  IF valid = {} THEN NaN ELSE << [ num |-> total, den |-> Cardinality(valid) ] >>

\* C11: a figure quoted by the text is the value computed for its key: the
\* mean of the field over the rows of that gender, the coefficient of the
\* pair; and when the dataset has no row of a quoted gender the lookup fails
\* (IndexError at the layout) and no layout is built.
C11_LookupReturnsComputedValueOrFails ==
  /\ layout.built =>
       /\ \A q \in GenderLookups :
            /\ RowsWith(Gender, q[1]) # {}
            /\ layout.gender[q] = ExpectedMean(q[2], RowsWith(Gender, q[1]))
       /\ \A q \in CorrLookups : layout.corr[q] = corr_matrix[q]
  /\ (Completed("sleep_disorder_counts")
        /\ \E q \in GenderLookups : RowsWith(Gender, q[1]) = {}) =>
       /\ ~layout.built
       /\ \/ pc = "layout"
          \/ pc = "crashed" /\ exc = [ type |-> "IndexError", at |-> "layout" ]

C11_Witness ==
  /\ pc = "crashed"
  /\ exc = [ type |-> "IndexError", at |-> "layout" ]
  /\ RowsWith(Gender, "Male") # {}
  /\ RowsWith(Gender, "Female") = {}
  /\ ~layout.built

\* C12: on the fixture the mean Sleep_Duration is 7.85 h for Male and 6.65 h
\* for Female (78.5 and 66.5 tenths of an hour), and the Sleep_Disorder
\* frequency table is exactly None: 2, Insomnia: 1, Sleep Apnea: 1.
C12_FixtureExample ==
  LET mean(g) == Val(LocValues(stats_gender, Gender, g, Sleep_Duration)[1])
  IN  /\ (data_base = Fixture /\ Completed("stats_gender")) =>
           /\ Len(stats_gender.rows) = 2
           /\ mean("Male").num * 10 = 785 * mean("Male").den
           /\ mean("Female").num * 10 = 665 * mean("Female").den
      /\ (data_base = Fixture /\ Completed("sleep_disorder_counts")) =>
           /\ Len(sleep_disorder_counts.rows) = 3
           /\ CountOf(sleep_disorder_counts, "None") = 2
           /\ CountOf(sleep_disorder_counts, "Insomnia") = 1
           /\ CountOf(sleep_disorder_counts, "Sleep Apnea") = 1

C12_Witness ==
  /\ data_base = Fixture
  /\ pc = "serving"
  /\ CountOf(sleep_disorder_counts, "None") = 2
  /\ Len(stats_gender.rows) = 2


\* C13: once the load is done data_base never changes, each artifact never
\* changes once its statement has completed, and a page request leaves the
\* dataset, the artifacts and the layout as they are and restarts nothing.
C13_ArtifactsImmutableAfterLoad ==
  [][ /\ LoadDone => data_base' = data_base
      /\ Completed("corr") => corr_matrix' = corr_matrix
      /\ Completed("stats_gender") => stats_gender' = stats_gender
      /\ Completed("stats_bmi") => stats_bmi' = stats_bmi
      /\ Completed("gender_counts") => gender_counts' = gender_counts
      /\ Completed("bmi_counts") => bmi_counts' = bmi_counts
      /\ Completed("sleep_disorder_counts") =>
           sleep_disorder_counts' = sleep_disorder_counts
      /\ pc = "serving" =>
           /\ pc' = "serving"
           /\ UNCHANGED << data_base, artifacts, layout, stdout >> ]_vars

C13_Witness ==
  /\ pc = "serving"
  /\ served = 2
  /\ ~fallbackTaken
  /\ layout.built

\* the cell of a group-means table for the group k and the field
MeanCell(tbl, key, k, field) == LocValues(tbl, key, k, field)[1]

\* every cell of the table is the mean of its field over the rows of its group
\* that have a value for that field, and every row with a group value has its
\* group in the table
PartialRowTolerant(tbl, key) ==
  /\ \A i \in DOMAIN tbl.rows : \A v \in DOMAIN numeric_vars :
       tbl.rows[i][1 + v] =
         ExpectedMean(numeric_vars[v], RowsWith(key, Val(tbl.rows[i][1])))
  /\ \A r \in DOMAIN data_base.rows :
       ~IsNaN(Column(data_base, key)[r]) =>
         \E i \in DOMAIN tbl.rows : tbl.rows[i][1] = Column(data_base, key)[r]

\* C14: a row without a value for one numeric field is left out of the mean of
\* that field only; it counts in its group's mean of every field it has a
\* value for, and its group has a row in the table.
C14_AbsentValueExcludedFromItsFieldOnly ==
  /\ Completed("stats_gender") => PartialRowTolerant(stats_gender, Gender)
  /\ Completed("stats_bmi") => PartialRowTolerant(stats_bmi, BMI_Category)

C14_Witness ==
  /\ pc = "gender_counts"
  /\ ~fallbackTaken
  /\ Cardinality(RowsWith(Gender, "Male")) = 2
  /\ \E r \in RowsWith(Gender, "Male") :
       IsNaN(Column(data_base, Physical_Activity_Level)[r])
  /\ Val(MeanCell(stats_gender, Gender, "Male", Physical_Activity_Level)).den = 1
  /\ Val(MeanCell(stats_gender, Gender, "Male", Sleep_Duration)).den = 2

RECURSIVE TotalTo(_, _)
\* f[1] + ... + f[n]
TotalTo(f, n) == IF n = 0 THEN 0 ELSE f[n] + TotalTo(f, n - 1)

\* Pearson's coefficient of the columns xs and ys over the rows of R
CoefficientOver(xs, ys, R) ==
  LET last == Len(xs)
      x == [ r \in 1..last |-> IF r \in R THEN Val(xs[r]) ELSE 0 ]
      y == [ r \in 1..last |-> IF r \in R THEN Val(ys[r]) ELSE 0 ]
      n == Cardinality(R)
      Sx == TotalTo(x, last)
      Sy == TotalTo(y, last)
      vx == n * TotalTo([ r \in 1..last |-> x[r] * x[r] ], last) - Sx * Sx
      vy == n * TotalTo([ r \in 1..last |-> y[r] * y[r] ], last) - Sy * Sy
  IN  IF n = 0 \/ vx * vy = 0 THEN NaN
      ELSE << [ num |-> n * TotalTo([ r \in 1..last |-> x[r] * y[r] ], last) - Sx * Sy,
                den2 |-> vx * vy ] >>

\* C15: the coefficient of each pair is computed over exactly the rows in
\* which both fields of the pair have a value (stated of the state line 61
\* leaves; by C13 neither data_base nor corr_matrix changes afterwards).
C15_PairwiseCompleteCorrelation ==
  pc = "stats_gender" =>
    \A a, b \in Range(numeric_vars) :
      corr_matrix[<< a, b >>] =
        CoefficientOver(Column(data_base, a), Column(data_base, b), Eligible(a, b))

C15_Witness ==
  /\ pc = "stats_gender"
  /\ ~fallbackTaken
  /\ Cardinality(Eligible(Sleep_Duration, Stress_Level)) = 3
  /\ Cardinality(Eligible(Physical_Activity_Level, Stress_Level)) = 2
  /\ ~IsNaN(corr_matrix[<< Sleep_Duration, Stress_Level >>])
  /\ ~IsNaN(corr_matrix[<< Physical_Activity_Level, Stress_Level >>])


\* the whitespace characters a header may carry
Whitespace == { " ", "\t" }

\* C16: when line 36 first addresses a field by name, no column identifier of
\* data_base contains a whitespace character.
C16_NoWhitespaceWhenFirstAddressed ==
  pc = "fillna" =>
    \A i \in DOMAIN data_base.columns :
      \A j \in DOMAIN data_base.columns[i] :
        data_base.columns[i][j] \notin Whitespace

\* the statement that assigns the artifact has run
IsSet(tbl) == tbl # NoFrame

StagesInCodeOrder ==
  /\ corr_matrix # <<>> => pc \notin LoadStatements /\ data_base # NoFrame
  /\ IsSet(stats_gender) => corr_matrix # <<>>
  /\ IsSet(stats_bmi) => IsSet(stats_gender)
  /\ IsSet(gender_counts) => IsSet(stats_bmi)
  /\ IsSet(bmi_counts) => IsSet(gender_counts)
  /\ IsSet(sleep_disorder_counts) => IsSet(bmi_counts)
  /\ layout.built => IsSet(sleep_disorder_counts)
  /\ pc \in { "run_server", "serving" } => layout.built

\* no stage runs a second time
StagesAtMostOnce ==
  /\ pc \notin LoadStatements => pc' \notin LoadStatements
  /\ corr_matrix # <<>> => corr_matrix' = corr_matrix
  /\ IsSet(stats_gender) => stats_gender' = stats_gender
  /\ IsSet(stats_bmi) => stats_bmi' = stats_bmi
  /\ IsSet(gender_counts) => gender_counts' = gender_counts
  /\ IsSet(bmi_counts) => bmi_counts' = bmi_counts
  /\ IsSet(sleep_disorder_counts) => sleep_disorder_counts' = sleep_disorder_counts
  /\ layout.built => layout' = layout

LoadedFromSource ==
  /\ file.state = "ok"
  /\ Len(data_base.columns) = Len(file.header)
  /\ \A c \in DOMAIN file.header :
       /\ Len(data_base.columns[c]) = Len(file.header[c])
       /\ \A j \in DOMAIN file.header[c] :
            data_base.columns[c][j] =
              IF file.header[c][j] = " " THEN "_" ELSE file.header[c][j]
  /\ Len(data_base.rows) = Len(file.rows)
  /\ \A r \in DOMAIN file.rows : \A c \in DOMAIN file.header :
       data_base.rows[r][c] =
         IF data_base.columns[c] = Sleep_Disorder /\ file.rows[r][c] \in NaTokens
           THEN << "None" >>
           ELSE ParseCell(file.rows[r][c])

\* C18: after the load data_base is either the whole source table, renamed
\* and filled, or exactly the fixture; a source that was read but has no
\* Sleep_Disorder column after the renaming is replaced by the fixture.
C18_LoadIsAllOrNothing ==
  LoadDone =>
    /\ \/ ~fallbackTaken /\ LoadedFromSource
       \/ fallbackTaken /\ data_base = Fixture
    /\ HasColumn(data_base, Sleep_Disorder)
    /\ (file.state = "ok"
          /\ \A c \in DOMAIN file.header : ReplaceSpaces(file.header[c]) # Sleep_Disorder)
         => data_base = Fixture

C18_Witness ==
  /\ pc = "corr"
  /\ file.state = "ok"
  /\ Len(file.rows) = 3
  /\ fallbackTaken
  /\ data_base = Fixture

=============================================================================
